---- MODULE Spec2Model ----
(***************************************************************************)
(* Model of the Mattermost client's pagination and response-normalisation  *)
(* layer (MattermostClient in client.ts) and of the channel-history tool   *)
(* handler (tools/channels.ts).                                            *)
(*                                                                         *)
(* A post id is modelled by a natural number, a post body by the record    *)
(* [id, ver] (ver tells which response delivered the body), an optional    *)
(* JavaScript value by a set with at most one element ({} = undefined).    *)
(* One step of the model is the code that runs between two awaits.         *)
(***************************************************************************)
EXTENDS Integers, Sequences, FiniteSets, TLC

\* ------------------------------------------------------------------ bounds
\* Largest size of the static upstream collection (a channel's posts).
MaxM == 447
\* Largest number of pages a freely answering upstream serves in one run.
MaxPages == 3

\* ------------------------------------------------------- program constants
\* const perPage = 200; // Max per page
perPage == 200
\* limit = 30 (default of handleGetChannelHistory and getPostsForChannel)
DefaultLimit == 30
\* page = 0 (default)
DefaultPage == 0
\* Infinity of `options?.maxPosts || Infinity`: a sentinel, compared by
\* LessThan / AtLeast below and never by < on integers.
Infinity == -1

VARIABLES
  op,        \* the operation in progress: "idle", "getAll", "history",
             \* "getChannels", "getMyChannels", "getUsers"
  pc,        \* "idle", "await" (a page request is in flight), "done", "error"
  upstream,  \* the upstream the run talks to: [mode, M]
  args,      \* GetChannelHistoryArgs of the handler call
  options,   \* options of getAllPostsForChannel / getPostsForChannel
  allPosts,  \* Record<string, Post>
  allOrder,  \* string[]
  page,      \* let page
  hasMore,   \* let hasMore
  maxPosts,  \* const maxPosts
  requests,  \* the page requests issued so far, in order (their query strings)
  fetched,   \* the pages received so far, in order
  result,    \* what the client method gave back to its caller
  payload,   \* what the tool handler answered
  raw        \* decoded JSON body handed to a normalising method

vars == <<op, pc, upstream, args, options, allPosts, allOrder, page, hasMore,
          maxPosts, requests, fetched, result, payload, raw>>

\* ------------------------------------------------------------ JavaScript
Min(a, b) == IF a < b THEN a ELSE b
Max(a, b) == IF a > b THEN a ELSE b

\* Truthiness of an optional number and of an optional string:
\* undefined, 0 and "" are falsy.
TruthyNumber(opt) == opt # {} /\ opt # {0}
TruthyString(opt) == opt # {} /\ opt # {""}

TheValue(opt) == CHOOSE v \in opt : TRUE

\* a < b and a >= b where b may be Infinity.
LessThan(a, b) == b = Infinity \/ a < b
AtLeast(a, b) == ~LessThan(a, b)

\* Array.prototype.slice(0, end)
Slice(s, end) == IF end = Infinity \/ end >= Len(s) THEN s ELSE SubSeq(s, 1, end)

\* Object.assign(target, source): source's entries win.
ObjectAssign(target, source) ==
  [k \in DOMAIN target \cup DOMAIN source |->
     IF k \in DOMAIN source THEN source[k] ELSE target[k]]

EmptyObject == [k \in {} |-> 0]

\* ---------------------------------------------------------------- pages
\* A page is described by its first id, its length and the version of its
\* bodies: PostsResponse.order and PostsResponse.posts follow from that.
Order(d) == [i \in 1..d.len |-> d.start + i - 1]
Posts(d) == [id \in d.start..(d.start + d.len - 1) |-> [id |-> id, ver |-> d.ver]]
Ids(d) == d.start..(d.start + d.len - 1)

\* The page a static collection of M posts serves for (page p, per_page n).
StaticPage(M, p, n) ==
  [start |-> p * n + 1, len |-> Max(0, Min(n, M - p * n)), ver |-> 0]

\* Pages a freely answering upstream may serve: they satisfy the Page
\* invariant one by one and may overlap one another.
Starts == {1, 101, 201, 401}
Lens == {0, 50, 200}


\* ------------------------------------------------- MattermostClient (posts)
\* getPostsForChannel, up to its await: the query string of the request.
\* page and per_page are always appended; since / before / after only when
\* the option is truthy.
Query(limit, pg, opts) ==
  [page     |-> ToString(pg),
   per_page |-> ToString(limit),
   since    |-> IF TruthyNumber(opts.since) THEN {ToString(TheValue(opts.since))} ELSE {},
   before   |-> IF TruthyString(opts.before) THEN opts.before ELSE {},
   after    |-> IF TruthyString(opts.after) THEN opts.after ELSE {}]

\* The options getAllPostsForChannel hands to getPostsForChannel.
PageOptions(opts) ==
  [since |-> opts.since, before |-> opts.before, after |-> opts.after]

\* getPostsForChannel, after its await, when !response.ok or fetch rejected.
ErrorMessage(failure) ==
  IF failure = "http" THEN "Failed to get posts: 500 Internal Server Error"
  ELSE "request to upstream failed"

Failures == {"http", "transport"}

\* const maxPosts = options?.maxPosts || Infinity;
EffectiveMaxPosts(opts) ==
  IF TruthyNumber(opts.maxPosts) THEN TheValue(opts.maxPosts) ELSE Infinity

\* while (hasMore && allOrder.length < maxPosts)
LoopCondition(more, n, max) == more /\ LessThan(n, max)

\* Mutation: the page is put in front of the accumulated order (unshift).
MergeOrderPrepend(acc, order) == order \o acc

\* allOrder.push(...response.order)
MergeOrder(acc, order) == acc \o order

\* Object.assign(allPosts, response.posts)
MergePosts(acc, posts) == ObjectAssign(acc, posts)

\* Mutation: any non-empty page counts as "more to come".
MorePostsNonEmpty(order) == Len(order) > 0

\* hasMore = response.order.length === perPage
MorePosts(order) == Len(order) = perPage

\* if (allOrder.length >= maxPosts) break
ReachedMax(n, max) == AtLeast(n, max)

\* Mutation: the accumulated order is returned without the slice.
ReturnValueUntruncated(order, posts, max) ==
  [status |-> "returned", order |-> order, posts |-> posts,
   next_post_id |-> "", prev_post_id |-> ""]

\* return { order: allOrder.slice(0, maxPosts), posts: allPosts, ... }
ReturnValue(order, posts, max) ==
  [status |-> "returned", order |-> Slice(order, max), posts |-> posts,
   next_post_id |-> "", prev_post_id |-> ""]

\* A single page as getPostsForChannel returns it (response.json()).
PageValue(d) ==
  [status |-> "returned", order |-> Order(d), posts |-> Posts(d),
   next_post_id |-> "", prev_post_id |-> ""]

Thrown(message) == [status |-> "thrown", error |-> message]

NoResult == [status |-> "none"]

\* ------------------------------------------------ handleGetChannelHistory
\* new Date(since_date).getTime(); {} stands for NaN.
DateGetTime(date) ==
  CASE date = "1970-01-01" -> {0}
    [] date = "1970-01-02" -> {86400000}
    [] OTHER -> {}

InvalidDate(date) == "Invalid date format: " \o date

\* const { limit = 30, page = 0, get_all = false } = args
LimitOf(a) == IF a.limit = {} THEN DefaultLimit ELSE TheValue(a.limit)
PageOf(a) == IF a.page = {} THEN DefaultPage ELSE TheValue(a.page)

\* let sinceTimestamp: undefined unless since_date is truthy.
SinceTimestamp(a) ==
  IF TruthyString(a.since_date) THEN DateGetTime(TheValue(a.since_date)) ELSE {}

\* The date check that throws before any request is made.
DateRejected(a) == TruthyString(a.since_date) /\ DateGetTime(TheValue(a.since_date)) = {}

\* The options object the handler builds for either client method.
HandlerOptions(a) ==
  [since |-> SinceTimestamp(a), before |-> a.before_post_id,
   after |-> a.after_post_id, maxPosts |-> {}]

\* response.order.map(postId => { const post = response.posts[postId]; ... })
\* throws a TypeError when a post is missing from response.posts.
Formattable(response) ==
  \A i \in 1..Len(response.order) : response.order[i] \in DOMAIN response.posts

FormattedPosts(response) ==
  [i \in 1..Len(response.order) |->
     [id |-> response.posts[response.order[i]].id,
      ver |-> response.posts[response.order[i]].ver]]

NoPayload == [answered |-> FALSE]

\* Mutation: the catch block answers with what was collected so far.
ErrorPayloadPartial(message) ==
  [answered |-> TRUE, isError |-> TRUE,
   body |-> [error |-> message, posts |-> allOrder]]

\* The catch block: { content: [{ text: { error } }], isError: true }
ErrorPayload(message) ==
  [answered |-> TRUE, isError |-> TRUE, body |-> [error |-> message]]

\* The success answer (cursor flags has_next / has_prev are not modelled).
SuccessPayload(a, response) ==
  [answered |-> TRUE, isError |-> FALSE,
   body |-> [posts |-> FormattedPosts(response),
             total_posts |-> Len(response.order),
             page |-> IF a.get_all THEN {} ELSE {PageOf(a)},
             per_page |-> IF a.get_all THEN {} ELSE {LimitOf(a)},
             get_all |-> a.get_all]]

\* The handler's code after the client method settled.
Answer(a, response) ==
  IF response.status = "thrown" THEN ErrorPayload(response.error)
  ELSE IF ~Formattable(response) THEN ErrorPayload("Cannot read properties of undefined")
  ELSE SuccessPayload(a, response)


\* ------------------------------------------- MattermostClient (envelopes)
\* A decoded JSON body: an array (items), or an object with some fields
\* (items is the sequence under its entity field, if it has one), or any
\* other value (no field at all).
NoRaw == [isArray |-> FALSE, fields |-> {}, items |-> <<>>, total_count |-> {}]

RawValues ==
  {[isArray |-> TRUE, fields |-> {}, items |-> <<>>, total_count |-> {}],
   [isArray |-> TRUE, fields |-> {}, items |-> <<1, 2>>, total_count |-> {}],
   [isArray |-> FALSE, fields |-> {"channels", "total_count"}, items |-> <<1>>,
    total_count |-> {1}],
   [isArray |-> FALSE, fields |-> {"users", "total_count"}, items |-> <<1, 2>>,
    total_count |-> {2}],
   [isArray |-> FALSE, fields |-> {"message", "status_code"}, items |-> <<>>,
    total_count |-> {}],
   NoRaw}

\* if (Array.isArray(x)) return { <field>: x, total_count: x.length };
\* return x as ChannelsResponse / UsersResponse;
Normalize(body, field) ==
  IF body.isArray
  THEN [status |-> "returned",
        value |-> [isArray |-> FALSE, fields |-> {field, "total_count"},
                   items |-> body.items, total_count |-> {Len(body.items)}]]
  ELSE [status |-> "returned", value |-> body]

\* if (!response.ok) throw new Error("Failed to get ...")
Rejected(what) == Thrown("Failed to get " \o what \o ": 500 Internal Server Error")

\* ------------------------------------------------------------------ inputs
NoArgs ==
  [get_all |-> FALSE, limit |-> {}, page |-> {}, since_date |-> {},
   before_post_id |-> {}, after_post_id |-> {}]

NoOptions == [since |-> {}, before |-> {}, after |-> {}, maxPosts |-> {}]

NoFilter == [since |-> {}, before |-> {}, after |-> {}]

\* Filter Sets a caller of the client supplies.
Filters ==
  {NoFilter,
   [since |-> {0}, before |-> {"p7"}, after |-> {}],
   [since |-> {5}, before |-> {""}, after |-> {"p3"}]}

\* Caps a caller of getAllPostsForChannel supplies ({} = none).
Caps == {{}, {0}, {1}, {50}, {200}, {201}, {400}}

\* The options a caller of getAllPostsForChannel supplies: every cap without
\* a filter, every Filter Set without a cap and with one.
AllOptions ==
  {[since |-> f.since, before |-> f.before, after |-> f.after, maxPosts |-> c] :
     f \in {NoFilter}, c \in Caps}
  \cup
  {[since |-> f.since, before |-> f.before, after |-> f.after, maxPosts |-> c] :
     f \in Filters, c \in {{}, {50}}}

\* Arguments of the channel-history tool.
HistoryArgs ==
  {NoArgs,
   [NoArgs EXCEPT !.get_all = TRUE],
   [NoArgs EXCEPT !.limit = {0}],
   [NoArgs EXCEPT !.limit = {0}, !.page = {1}],
   [NoArgs EXCEPT !.limit = {200}, !.page = {1}, !.since_date = {""}],
   [NoArgs EXCEPT !.since_date = {"yesterday"}],
   [NoArgs EXCEPT !.get_all = TRUE, !.since_date = {"yesterday"}],
   [NoArgs EXCEPT !.get_all = TRUE, !.limit = {0}, !.since_date = {"1970-01-01"},
                  !.before_post_id = {"p7"}],
   [NoArgs EXCEPT !.since_date = {"1970-01-02"}, !.after_post_id = {"p3"}]}

Upstreams ==
  {[mode |-> "static", M |-> m] : m \in 0..MaxM} \cup {[mode |-> "any", M |-> 0]}

\* ------------------------------------------------------------------ state
Init ==
  /\ op = "idle"
  /\ pc = "idle"
  /\ upstream = [mode |-> "static", M |-> 0]
  /\ args = NoArgs
  /\ options = NoOptions
  /\ allPosts = EmptyObject
  /\ allOrder = <<>>
  /\ page = 0
  /\ hasMore = TRUE
  /\ maxPosts = Infinity
  /\ requests = <<>>
  /\ fetched = <<>>
  /\ result = NoResult
  /\ payload = NoPayload
  /\ raw = NoRaw

Aggregating == op = "getAll" \/ (op = "history" /\ args.get_all)

\* getAllPostsForChannel from its first line to its first await (or return).
StartAll(opts) ==
  LET max == EffectiveMaxPosts(opts) IN
  /\ allPosts' = EmptyObject
  /\ allOrder' = <<>>
  /\ page' = 0
  /\ hasMore' = TRUE
  /\ maxPosts' = max
  /\ fetched' = <<>>
  /\ IF LoopCondition(TRUE, 0, max)
     THEN /\ requests' = <<Query(perPage, 0, PageOptions(opts))>>
          /\ pc' = "await"
          /\ result' = NoResult
     ELSE /\ requests' = <<>>
          /\ pc' = "done"
          /\ result' = ReturnValue(<<>>, EmptyObject, max)

\* A caller of the client calls getAllPostsForChannel(channelId, opts).
CallGetAllPostsForChannel(opts, up) ==
  /\ op = "idle"
  /\ op' = "getAll"
  /\ upstream' = up
  /\ options' = opts
  /\ StartAll(opts)
  /\ UNCHANGED <<args, payload, raw>>

\* handleGetChannelHistory(client, a) up to its first await (or its answer).
CallHandleGetChannelHistory(a, up) ==
  /\ op = "idle"
  /\ op' = "history"
  /\ upstream' = up
  /\ args' = a
  /\ options' = HandlerOptions(a)
  /\ raw' = raw
  /\ IF DateRejected(a)
     THEN /\ payload' = ErrorPayload(InvalidDate(TheValue(a.since_date)))
          /\ pc' = "done"
          /\ UNCHANGED <<allPosts, allOrder, page, hasMore, maxPosts, requests,
                         fetched, result>>
     ELSE IF a.get_all
     THEN /\ StartAll(HandlerOptions(a))
          /\ payload' = IF pc' = "done" THEN Answer(a, result') ELSE NoPayload
     ELSE /\ requests' = <<Query(LimitOf(a), PageOf(a), PageOptions(HandlerOptions(a)))>>
          /\ pc' = "await"
          /\ payload' = NoPayload
          /\ UNCHANGED <<allPosts, allOrder, page, hasMore, maxPosts, fetched, result>>

\* The pages the upstream may answer the pending request with. What the
\* upstream does with per_page=0 is not the client's to decide: it may serve
\* no post, or fall back to a page size of its own, at most its maximum.
Served ==
  LET p == IF Aggregating THEN page ELSE PageOf(args)
      n == IF Aggregating THEN perPage ELSE LimitOf(args)
  IN IF upstream.mode = "static"
     THEN IF n = 0
          THEN {StaticPage(upstream.M, p, 0), StaticPage(upstream.M, p, perPage)}
          ELSE {StaticPage(upstream.M, p, n)}
     ELSE {d \in [start : Starts, len : Lens, ver : {Len(fetched)}] :
             /\ d.len <= n
             /\ d.len = perPage => Len(fetched) + 1 < MaxPages}

\* The pending request succeeds with page d: the code from the await to the
\* next await, or to the return of the method and the answer of the handler.
ReceivePage(d) ==
  /\ pc = "await"
  /\ d \in Served
  /\ fetched' = Append(fetched, d)
  /\ IF Aggregating
     THEN LET order == Order(d)
              empty == Len(order) = 0
              newPosts == IF empty THEN allPosts ELSE MergePosts(allPosts, Posts(d))
              newOrder == IF empty THEN allOrder ELSE MergeOrder(allOrder, order)
              more == IF empty THEN FALSE ELSE MorePosts(order)
              newPage == IF empty THEN page ELSE page + 1
              again == /\ ~empty
                       /\ ~ReachedMax(Len(newOrder), maxPosts)
                       /\ LoopCondition(more, Len(newOrder), maxPosts)
          IN /\ allPosts' = newPosts
             /\ allOrder' = newOrder
             /\ hasMore' = more
             /\ page' = newPage
             /\ IF again
                THEN /\ requests' = Append(requests, Query(perPage, newPage, PageOptions(options)))
                     /\ pc' = "await"
                     /\ result' = NoResult
                ELSE /\ requests' = requests
                     /\ pc' = "done"
                     /\ result' = ReturnValue(newOrder, newPosts, maxPosts)
     ELSE /\ result' = PageValue(d)
          /\ pc' = "done"
          /\ UNCHANGED <<allPosts, allOrder, hasMore, page, requests>>
  /\ payload' = IF op = "history" /\ pc' = "done" THEN Answer(args, result') ELSE payload
  /\ UNCHANGED <<op, upstream, args, options, maxPosts, raw>>

\* The pending request fails (fetch rejects, or the status is not ok): the
\* error leaves getPostsForChannel and getAllPostsForChannel uncaught and is
\* caught by the handler.
RequestFails(failure) ==
  /\ pc = "await"
  /\ pc' = "done"
  /\ result' = Thrown(ErrorMessage(failure))
  /\ payload' = IF op = "history" THEN Answer(args, result') ELSE payload
  /\ UNCHANGED <<op, upstream, args, options, allPosts, allOrder, page, hasMore,
                 maxPosts, requests, fetched, raw>>

\* getChannels / getMyChannels / getUsers: one request, then the envelope.
Normalizer(name, what, field, ok, body) ==
  /\ op = "idle"
  /\ op' = name
  /\ pc' = "done"
  /\ raw' = body
  /\ result' = IF ok THEN Normalize(body, field) ELSE Rejected(what)
  /\ UNCHANGED <<upstream, args, options, allPosts, allOrder, page, hasMore,
                 maxPosts, requests, fetched, payload>>

getChannels(ok, body) == Normalizer("getChannels", "channels", "channels", ok, body)
getMyChannels(ok, body) == Normalizer("getMyChannels", "user channels", "channels", ok, body)
getUsers(ok, body) == Normalizer("getUsers", "users", "users", ok, body)

Next ==
  \/ \E opts \in AllOptions, up \in Upstreams : CallGetAllPostsForChannel(opts, up)
  \/ \E a \in HistoryArgs, up \in Upstreams : CallHandleGetChannelHistory(a, up)
  \/ \E d \in Served : ReceivePage(d)
  \/ \E f \in Failures : RequestFails(f)
  \/ \E ok \in BOOLEAN, body \in RawValues : getChannels(ok, body)
  \/ \E ok \in BOOLEAN, body \in RawValues : getMyChannels(ok, body)
  \/ \E ok \in BOOLEAN, body \in RawValues : getUsers(ok, body)

Spec == Init /\ [][Next]_vars


\* ================================================================= claims
Static == upstream.mode = "static"

Returned == pc = "done" /\ result.status = "returned"

NormalizerOps == {"getChannels", "getMyChannels", "getUsers"}

RECURSIVE ConcatOrders(_)
ConcatOrders(pages) ==
  IF pages = <<>> THEN <<>>
  ELSE ConcatOrders(SubSeq(pages, 1, Len(pages) - 1)) \o Order(pages[Len(pages)])

RECURSIVE Collected(_)
Collected(pages) ==
  IF pages = <<>> THEN 0
  ELSE Collected(SubSeq(pages, 1, Len(pages) - 1)) + pages[Len(pages)].len

PairwiseDisjoint(pages) ==
  \A i, j \in 1..Len(pages) : i # j => Ids(pages[i]) \cap Ids(pages[j]) = {}

NoDuplicates(order) == Cardinality({order[i] : i \in 1..Len(order)}) = Len(order)

CeilDiv(a, b) == (a + b - 1) \div b

\* C1: a run of getAllPostsForChannel given a cap N (any non-negative
\* integer) against a static collection of M ids returns at most N ids, and
\* exactly N when M >= N.
C1_CapRespected ==
  (op = "getAll" /\ Static /\ Returned /\ options.maxPosts # {}) =>
    LET N == TheValue(options.maxPosts) IN
      /\ Len(result.order) <= N
      /\ upstream.M >= N => Len(result.order) = N

\* C2 as stated: after each fetched page of an aggregation run, a page of
\* exactly perPage ids is followed by a further request and a page of fewer
\* ids by none.
C2_FullPageAlwaysContinues ==
  [][(Aggregating /\ pc = "await" /\ Len(fetched') = Len(fetched) + 1) =>
       LET got == fetched'[Len(fetched')].len IN
         /\ got = perPage => (pc' = "await" /\ Len(requests') = Len(requests) + 1)
         /\ got < perPage => (pc' = "done" /\ requests' = requests)]_vars

\* C2 as amended: a page of exactly perPage ids is followed by a further
\* request when the ids collected so far are fewer than the cap in force
\* (options.maxPosts when it is at least 1, none otherwise) and by none when
\* they have reached it; a page of fewer ids is followed by none.
C2_FullPageContinuesBelowCap ==
  [][(Aggregating /\ pc = "await" /\ Len(fetched') = Len(fetched) + 1) =>
       LET got == fetched'[Len(fetched')].len
           capped == /\ TruthyNumber(options.maxPosts)
                     /\ Collected(fetched') >= TheValue(options.maxPosts)
       IN /\ (got = perPage /\ ~capped) =>
               (pc' = "await" /\ Len(requests') = Len(requests) + 1)
          /\ (got = perPage /\ capped) => (pc' = "done" /\ requests' = requests)
          /\ got < perPage => (pc' = "done" /\ requests' = requests)]_vars

\* A capped run that received a full page below its cap and asked for the next.
C2_Witness ==
  /\ op = "getAll" /\ options.maxPosts = {201}
  /\ Len(fetched) = 1 /\ fetched[1].len = perPage
  /\ pc = "await" /\ Len(requests) = 2

\* C3: whatever pages (each satisfying the Page invariant, possibly
\* overlapping) the upstream serves, the returned order holds no id twice and
\* every id of it has an entry in the returned posts, so the handler formats
\* it without a missing post.
C3_NoDuplicateOrder ==
  (Aggregating /\ Returned) =>
    /\ NoDuplicates(result.order)
    /\ \A i \in 1..Len(result.order) : result.order[i] \in DOMAIN result.posts
    /\ op = "history" => (payload.answered /\ ~payload.isError)

\* C4: when the request for page k fails, the aggregation ends with an error
\* (no result value), the failed request is the last one issued, and the
\* handler answers with isError and an error message only: none of the posts
\* of pages 0..k-1.
C4_FailureDiscardsPartial ==
  (Aggregating /\ result.status = "thrown") =>
    /\ pc = "done"
    /\ DOMAIN result = {"status", "error"}
    /\ Len(requests) = Len(fetched) + 1
    /\ op = "history" =>
         /\ payload.answered /\ payload.isError
         /\ DOMAIN payload.body = {"error"}
         /\ payload.body.error = result.error

\* The handler's aggregation collected a full first page and then failed.
C4_Witness ==
  /\ op = "history" /\ args.get_all
  /\ result.status = "thrown"
  /\ Len(fetched) = 1 /\ Len(allOrder) = perPage
  /\ payload.answered /\ payload.isError

\* C5: against a static collection of M ids and without failure, an uncapped
\* run issues floor(M/200)+1 requests and returns M ids; a run with cap N >= 1
\* issues min(floor(M/200)+1, ceil(N/200)) requests and returns min(M, N) ids.
C5_RequestAndIdCounts ==
  (op = "getAll" /\ Static /\ Returned /\ options.maxPosts # {0}) =>
    LET M == upstream.M
        pagesOfM == (M \div perPage) + 1
    IN IF options.maxPosts = {}
       THEN /\ Len(requests) = pagesOfM
            /\ Len(result.order) = M
       ELSE LET N == TheValue(options.maxPosts) IN
            /\ Len(requests) = Min(pagesOfM, CeilDiv(N, perPage))
            /\ Len(result.order) = Min(M, N)

\* Pages [200, 200, 47] without a cap: three requests, 447 ids.
C5_Witness ==
  /\ op = "getAll" /\ Static /\ Returned /\ options.maxPosts = {}
  /\ upstream.M = 2 * perPage + 47
  /\ Len(requests) = 3 /\ Len(result.order) = 2 * perPage + 47

\* C6: when the pages fetched in an uncapped run are pairwise disjoint, the
\* returned order is their orders concatenated in fetch order and the returned
\* posts are the union of their posts.
C6_MergeOfDisjointPages ==
  (Aggregating /\ Returned /\ options.maxPosts = {} /\ PairwiseDisjoint(fetched)) =>
    /\ result.order = ConcatOrders(fetched)
    /\ DOMAIN result.posts = UNION {Ids(fetched[i]) : i \in 1..Len(fetched)}
    /\ \A i \in 1..Len(fetched) : \A id \in Ids(fetched[i]) :
         result.posts[id] = Posts(fetched[i])[id]

\* Two disjoint non-empty pages, served out of id order, were merged.
C6_Witness ==
  /\ op = "getAll" /\ Returned /\ options.maxPosts = {}
  /\ Len(fetched) = 2
  /\ fetched[1].start = 201 /\ fetched[1].len = perPage
  /\ fetched[2].start = 1 /\ fetched[2].len = 50

\* C7: a decoded body that is neither an array nor an object with the
\* expected entity field makes getChannels, getMyChannels and getUsers end in
\* an error, never in a returned value.
C7_ShapeErrorSurfaced ==
  (op \in NormalizerOps /\ pc = "done" /\ ~raw.isArray
     /\ (IF op = "getUsers" THEN "users" ELSE "channels") \notin raw.fields) =>
    result.status = "thrown"

\* C8: the handler called with limit = 0 and without get_all answers with all
\* the posts of the channel, as a call with get_all does.
C8_LimitZeroGetsAll ==
  (op = "history" /\ ~args.get_all /\ args.limit = {0} /\ Static /\ Returned) =>
    /\ payload.answered /\ ~payload.isError
    /\ payload.body.posts = [i \in 1..upstream.M |-> [id |-> i, ver |-> 0]]

\* C9: a run of getAllPostsForChannel with maxPosts = 0 issues no page request
\* and returns an empty order.
C9_ZeroCapNoRequest ==
  (op = "getAll" /\ options.maxPosts = {0}) =>
    /\ requests = <<>>
    /\ Returned /\ result.order = <<>>

\* C10: the k-th request of an aggregation run carries page k-1 and per_page
\* 200, every supplied since / before / after value unchanged (a since of 0
\* included) and no filter that was not supplied.
C10_FiltersForwarded ==
  Aggregating =>
    \A k \in 1..Len(requests) :
      /\ requests[k].page = ToString(k - 1)
      /\ requests[k].per_page = ToString(perPage)
      /\ requests[k].since = {ToString(v) : v \in options.since}
      /\ requests[k].before = options.before
      /\ requests[k].after = options.after


\* ----------------------------------------------------- supporting checks
\* Apart from duplicates, every id of a returned order has its post and the
\* handler formats every returned aggregate.
ReturnedOrderIsCovered ==
  (Aggregating /\ Returned) =>
    /\ \A i \in 1..Len(result.order) : result.order[i] \in DOMAIN result.posts
    /\ op = "history" => (payload.answered /\ ~payload.isError)

\* Against a static upstream no id is returned twice.
StaticOrderHasNoDuplicates ==
  (Aggregating /\ Returned /\ Static) => NoDuplicates(result.order)

\* Page index and page size of every request of a run are as claimed; only
\* the falsy filter values are dropped.
PagingParametersForwarded ==
  Aggregating =>
    \A k \in 1..Len(requests) :
      /\ requests[k].page = ToString(k - 1)
      /\ requests[k].per_page = ToString(perPage)
      /\ requests[k].since = {ToString(v) : v \in options.since \ {0}}
      /\ requests[k].before = options.before \ {""}
      /\ requests[k].after = options.after \ {""}

\* A well-shaped body is normalised to an envelope with its count.
WellShapedBodyIsNormalized ==
  (op \in NormalizerOps /\ Returned /\ raw.isArray) =>
    /\ result.value.items = raw.items
    /\ result.value.total_count = {Len(raw.items)}

====
